---- MODULE Spec2Model ----
(***************************************************************************)
(* Department queue scheduler of the hospital backend.                     *)
(*                                                                         *)
(* The state is the department_queues table (one row per queue entry, the  *)
(* row's index is its queueId), the departments' currentPatientLoad        *)
(* counters and the clock that supplies `new Date()` / defaultNow(); the   *)
(* clock is read in units of calls, so two rows written by different       *)
(* calls never carry the same timestamp.  Callers pass the ids of rows and *)
(* departments that exist.                                                 *)
(* Every action is one service call executed to completion (its database   *)
(* transaction committed or rolled back).  lastOp records the call that    *)
(* produced the current state and what it returned to its caller.          *)
(* cache is the Redis store under the keys queue:<departmentId> (an empty  *)
(* sequence for an absent key, a one-element sequence for a stored value)  *)
(* and response the body the last getQueueStatus call returned (its       *)
(* lastOp.arg is 1 when the body came from the cache, 0 when from the     *)
(* table).                                                                 *)
(* calls holds, per database session, the service call that is being       *)
(* executed statement by statement: its position (pc), the values its      *)
(* SELECTs returned, the rows its transaction has written and not yet      *)
(* committed, and its outcome once it has returned.                        *)
(***************************************************************************)
EXTENDS Integers, Sequences, FiniteSets, TLC

\* ------------------------------------------------------------------ bounds
MaxClock == 5
NumPatients == 2
NumDepartments == 2
NumDoctors == 1
MaxPosition == 3
NumSessions == 2
MaxSetup == 2
MaxFlags == 2
NumResources == 1

Patients == 1..NumPatients
Departments == 1..NumDepartments
Doctors == 1..NumDoctors
Sessions == 1..NumSessions
Resources == 1..NumResources

\* ------------------------------------------------------- schema constants
NULL == 0
UrgencyLevels == {"RED", "YELLOW", "GREEN"}
QueueStatuses == {"WAITING", "IN_PROGRESS", "COMPLETED", "CANCELLED", "SKIPPED"}
ActiveStatuses == {"WAITING", "IN_PROGRESS"}
TerminalStatuses == {"COMPLETED", "CANCELLED", "SKIPPED"}
ResourceStatuses ==
  {"AVAILABLE", "OCCUPIED", "MAINTENANCE", "OUT_OF_SERVICE", "RESERVED"}

VARIABLES departmentQueues, currentPatientLoad, now, lastOp,
          cache, response, calls, resources

vars == <<departmentQueues, currentPatientLoad, now, lastOp, cache, response,
          calls, resources>>

QueueIds == 1..Len(departmentQueues)

\* ---------------------------------------------------------------- helpers
\* CASE WHEN urgency = 'RED' THEN 1 WHEN 'YELLOW' THEN 2 ELSE 3 END
UrgencyRank(u) == IF u = "RED" THEN 1 ELSE IF u = "YELLOW" THEN 2 ELSE 3

\* rows of a department with status WAITING, in table dq
WaitingIn(dq, d) ==
  {q \in 1..Len(dq) : dq[q].departmentId = d /\ dq[q].status = "WAITING"}

LexLess(a, b) == a[1] < b[1] \/ (a[1] = b[1] /\ a[2] < b[2])
LexLeq(a, b) == a[1] < b[1] \/ (a[1] = b[1] /\ a[2] <= b[2])

\* every row order an ORDER BY on key may return for the rows S: rows with
\* equal keys come back in an order the database is free to choose
RECURSIVE OrderedBy(_, _)
OrderedBy(S, key) ==
  IF S = {} THEN {<<>>}
  ELSE UNION { { <<m>> \o t : t \in OrderedBy(S \ {m}, key) } :
               m \in {x \in S : \A y \in S : LexLeq(key[x], key[y])} }

\* a row of department_queues (the columns the queue operations read or write)
QueueRow ==
  [departmentId : Departments, patientId : Patients,
   urgencyLevel : UrgencyLevels, positionInQueue : Int,
   status : QueueStatuses, calledAt : Nat, completedAt : Nat,
   assignedDoctorId : Doctors \cup {NULL}, createdAt : Nat]

TypeOK ==
  /\ departmentQueues \in Seq(QueueRow)
  /\ currentPatientLoad \in [Departments -> Int]
  /\ now \in 1..MaxClock
  /\ DOMAIN cache = Departments
  /\ \A d \in Departments : Len(cache[d]) <= 1
  /\ Len(response) <= 1
  /\ DOMAIN calls = Sessions
  /\ \A s \in Sessions :
       calls[s].pc \in {"idle", "parse", "tx", "alert", "update", "writing",
                      "set", "allocate", "done"}
  /\ resources \in [Resources -> [status : ResourceStatuses,
                                   currentPatientId : Patients \cup {NULL}]]

\* Ids are opaque uuids, so only the order in which they first occur matters:
\* a call names a patient, department or doctor that a row already refers to,
\* or the lowest-numbered one that none refers to yet.
KnownPatients ==
  {p \in Patients :
     p = 1 \/ \E q \in QueueIds : departmentQueues[q].patientId >= p - 1}

KnownDepartments ==
  {d \in Departments :
     d = 1 \/ \E q \in QueueIds : departmentQueues[q].departmentId >= d - 1}

KnownDoctors ==
  {d \in Doctors :
     d = 1 \/ \E q \in QueueIds : departmentQueues[q].assignedDoctorId >= d - 1}

NoOp == [op |-> "init", status |-> 200, departmentId |-> NULL,
         queueId |-> NULL, patientId |-> NULL, arg |-> NULL, repeated |-> FALSE]

\* the record of a call: what was called, with which arguments, the HTTP
\* status it answered, and whether it repeats the call before it
Call(c) ==
  [op |-> c.op, status |-> c.status, departmentId |-> c.departmentId,
   queueId |-> c.queueId, patientId |-> c.patientId, arg |-> c.arg,
   repeated |-> /\ lastOp.op = c.op
                /\ lastOp.departmentId = c.departmentId
                /\ lastOp.queueId = c.queueId
                /\ lastOp.patientId = c.patientId
                /\ lastOp.arg = c.arg]

\* a session that executes no call
Idle ==
  [op |-> "none", pc |-> "idle", departmentId |-> NULL, queueId |-> NULL,
   patientId |-> NULL, arg |-> NULL, urgencyLevel |-> "", count |-> 0,
   plan |-> <<>>, written |-> 0, status |-> 0, fault |-> "none",
   vitals |-> <<>>, atStart |-> <<>>, symptoms |-> {}, mewsScore |-> 0,
   recommendedDept |-> "", broadcast |-> FALSE, result |-> <<>>,
   resourceId |-> NULL]

\* redisService.del(`queue:${departmentId}`)
RedisDel(c, d) == [c EXCEPT ![d] = <<>>]

Init ==
  /\ departmentQueues = <<>>
  /\ currentPatientLoad = [d \in Departments |-> 0]
  /\ now = 1
  /\ lastOp = NoOp
  /\ cache = [d \in Departments |-> <<>>]
  /\ response = <<>>
  /\ calls = [s \in Sessions |-> Idle]
  /\ resources = [r \in Resources |->
                    [status |-> "AVAILABLE", currentPatientId |-> NULL]]

\* ------------------------------------------------------------ performTriage
\* urgencyLevel is the class TriageCalculator derives from the vitals and d
\* the department row the routing rules resolve to.
PerformTriageRow(dq, p, u, d, t) ==
  [departmentId |-> d, patientId |-> p, urgencyLevel |-> u,
   positionInQueue |-> Cardinality(WaitingIn(dq, d)) + 1,
   status |-> "WAITING", calledAt |-> NULL, completedAt |-> NULL,
   assignedDoctorId |-> NULL, createdAt |-> t]

\* variant: a triage of a patient who already has a row in the department
\* rewrites the urgency of that row instead of inserting a new one
PerformTriage_EditsExisting(p, u, d) ==
  /\ now < MaxClock
  /\ LET own == {q \in QueueIds : /\ departmentQueues[q].patientId = p
                                  /\ departmentQueues[q].departmentId = d}
     IN  IF own = {}
         THEN /\ departmentQueues' =
                   Append(departmentQueues,
                          PerformTriageRow(departmentQueues, p, u, d, now))
              /\ currentPatientLoad' = [currentPatientLoad EXCEPT ![d] = @ + 1]
              /\ lastOp' = Call([op |-> "performTriage", status |-> 201,
                            departmentId |-> d,
                            queueId |-> Len(departmentQueues) + 1,
                            patientId |-> p, arg |-> NULL])
         ELSE \E q \in own :
                /\ departmentQueues' =
                     [departmentQueues EXCEPT ![q].urgencyLevel = u]
                /\ UNCHANGED currentPatientLoad
                /\ lastOp' = Call([op |-> "performTriage", status |-> 201,
                              departmentId |-> d, queueId |-> q,
                              patientId |-> p, arg |-> NULL])
  /\ now' = now + 1
  /\ UNCHANGED calls
  /\ UNCHANGED cache
  /\ response' = <<>>
  /\ UNCHANGED resources

PerformTriage(p, u, d) ==
  /\ now < MaxClock
  /\ departmentQueues' =
       Append(departmentQueues, PerformTriageRow(departmentQueues, p, u, d, now))
  /\ currentPatientLoad' = [currentPatientLoad EXCEPT ![d] = @ + 1]
  /\ now' = now + 1
  /\ UNCHANGED calls
  /\ UNCHANGED cache
  /\ response' = <<>>
  /\ lastOp' = Call([op |-> "performTriage", status |-> 201, departmentId |-> d,
                queueId |-> Len(departmentQueues) + 1, patientId |-> p,
                arg |-> NULL])
  /\ UNCHANGED resources

\* ---------------------------------------------------------- callNextPatient
\* variant: ORDER BY positionInQueue only, the urgency CASE dropped
CallNextKey_PositionOnly(dq) ==
  [q \in 1..Len(dq) |-> <<0, dq[q].positionInQueue>>]

\* ORDER BY urgency CASE, positionInQueue ASC
CallNextKey(dq) ==
  [q \in 1..Len(dq) |-> <<UrgencyRank(dq[q].urgencyLevel), dq[q].positionInQueue>>]

\* the rows the SELECT ... LIMIT 1 may return
NextPatientCandidates(dq, d) ==
  {q \in WaitingIn(dq, d) :
     \A r \in WaitingIn(dq, d) : LexLeq(CallNextKey(dq)[q], CallNextKey(dq)[r])}

CallNextPatient(d, doctorId) ==
  /\ now < MaxClock
  /\ WaitingIn(departmentQueues, d) # {}
  /\ \E nextPatient \in NextPatientCandidates(departmentQueues, d) :
       /\ departmentQueues' =
            [departmentQueues EXCEPT ![nextPatient] =
               [@ EXCEPT !.status = "IN_PROGRESS", !.calledAt = now,
                         !.assignedDoctorId = doctorId]]
       /\ lastOp' = Call([op |-> "callNextPatient", status |-> 200,
                     departmentId |-> d, queueId |-> nextPatient,
                     patientId |-> departmentQueues[nextPatient].patientId,
                     arg |-> doctorId])
  /\ currentPatientLoad' = [currentPatientLoad EXCEPT ![d] = @ - 1]
  /\ now' = now + 1
  /\ UNCHANGED calls
  /\ cache' = RedisDel(cache, d)
  /\ response' = <<>>
  /\ UNCHANGED resources

\* variant: the department load is decremented before the empty check
CallNextPatientEmpty_DecrementsLoad(d, doctorId) ==
  /\ now < MaxClock
  /\ WaitingIn(departmentQueues, d) = {}
  /\ UNCHANGED departmentQueues
  /\ currentPatientLoad' = [currentPatientLoad EXCEPT ![d] = @ - 1]
  /\ now' = now + 1
  /\ UNCHANGED calls
  /\ UNCHANGED cache
  /\ response' = <<>>
  /\ lastOp' = Call([op |-> "callNextPatient", status |-> 404, departmentId |-> d,
                queueId |-> NULL, patientId |-> NULL, arg |-> doctorId])
  /\ UNCHANGED resources

\* if (!nextPatient) throw new AppError('No patients in queue', 404)
CallNextPatientEmpty(d, doctorId) ==
  /\ now < MaxClock
  /\ WaitingIn(departmentQueues, d) = {}
  /\ UNCHANGED <<departmentQueues, currentPatientLoad>>
  /\ now' = now + 1
  /\ UNCHANGED calls
  /\ UNCHANGED cache
  /\ response' = <<>>
  /\ lastOp' = Call([op |-> "callNextPatient", status |-> 404, departmentId |-> d,
                queueId |-> NULL, patientId |-> NULL, arg |-> doctorId])
  /\ UNCHANGED resources

\* ---------------------------------------------------------- completePatient
CompletePatient(queueId) ==
  /\ now < MaxClock
  /\ queueId \in QueueIds
  /\ departmentQueues' =
       [departmentQueues EXCEPT ![queueId] =
          [@ EXCEPT !.status = "COMPLETED", !.completedAt = now]]
  /\ UNCHANGED currentPatientLoad
  /\ now' = now + 1
  /\ UNCHANGED calls
  /\ cache' = RedisDel(cache, departmentQueues[queueId].departmentId)
  /\ response' = <<>>
  /\ lastOp' = Call([op |-> "completePatient", status |-> 200,
                departmentId |-> departmentQueues[queueId].departmentId,
                queueId |-> queueId,
                patientId |-> departmentQueues[queueId].patientId,
                arg |-> NULL])
  /\ UNCHANGED resources

\* -------------------------------------------------------------- skipPatient
SkipPatient(queueId) ==
  /\ now < MaxClock
  /\ queueId \in QueueIds
  /\ departmentQueues' =
       [departmentQueues EXCEPT ![queueId] = [@ EXCEPT !.status = "SKIPPED"]]
  /\ UNCHANGED currentPatientLoad
  /\ now' = now + 1
  /\ UNCHANGED calls
  /\ cache' = RedisDel(cache, departmentQueues[queueId].departmentId)
  /\ response' = <<>>
  /\ lastOp' = Call([op |-> "skipPatient", status |-> 200,
                departmentId |-> departmentQueues[queueId].departmentId,
                queueId |-> queueId,
                patientId |-> departmentQueues[queueId].patientId,
                arg |-> NULL])
  /\ UNCHANGED resources

\* ---------------------------------------------------- updatePatientPosition
\* apply the collected { queueId, position } updates one after the other
RECURSIVE ApplyPositions(_, _)
ApplyPositions(dq, positions) ==
  IF positions = <<>> THEN dq
  ELSE ApplyPositions(
         [dq EXCEPT ![Head(positions).queueId] =
            [@ EXCEPT !.positionInQueue = Head(positions).position]],
         Tail(positions))

\* the "Adjust positions" loop over waitingPatients[i..], then the trailing
\* `if (currentPos <= newPosition)` push
RECURSIVE AdjustPositions(_, _, _, _, _)
AdjustPositions(waitingPatients, i, currentPos, queueId, newPosition) ==
  IF i > Len(waitingPatients)
  THEN IF currentPos <= newPosition
       THEN <<[queueId |-> queueId, position |-> newPosition]>>
       ELSE <<>>
  ELSE IF currentPos = newPosition
       THEN <<[queueId |-> queueId, position |-> currentPos],
              [queueId |-> waitingPatients[i], position |-> currentPos + 1]>>
            \o AdjustPositions(waitingPatients, i + 1, currentPos + 2,
                               queueId, newPosition)
       ELSE <<[queueId |-> waitingPatients[i], position |-> currentPos]>>
            \o AdjustPositions(waitingPatients, i + 1, currentPos + 1,
                               queueId, newPosition)

\* ORDER BY positionInQueue ASC
PositionKey(dq) == [q \in 1..Len(dq) |-> <<dq[q].positionInQueue, 0>>]

\* variant: the SELECT without `id != :queueId`, the entry itself included
OtherWaitingPatients_IncludesEntry(dq, queueId) ==
  OrderedBy(WaitingIn(dq, dq[queueId].departmentId), PositionKey(dq))

\* the other WAITING rows of the entry's department, in the orders the
\* SELECT may return them
OtherWaitingPatients(dq, queueId) ==
  OrderedBy(WaitingIn(dq, dq[queueId].departmentId) \ {queueId}, PositionKey(dq))

UpdatePatientPosition(queueId, newPosition) ==
  /\ now < MaxClock
  /\ queueId \in QueueIds
  /\ newPosition >= 1
  /\ \E waitingPatients \in OtherWaitingPatients(departmentQueues, queueId) :
       departmentQueues' =
         ApplyPositions(departmentQueues,
           AdjustPositions(waitingPatients, 1, 1, queueId, newPosition))
  /\ UNCHANGED currentPatientLoad
  /\ now' = now + 1
  /\ UNCHANGED calls
  /\ cache' = RedisDel(cache, departmentQueues[queueId].departmentId)
  /\ response' = <<>>
  /\ lastOp' = Call([op |-> "updatePatientPosition", status |-> 200,
                departmentId |-> departmentQueues[queueId].departmentId,
                queueId |-> queueId,
                patientId |-> departmentQueues[queueId].patientId,
                arg |-> newPosition])
  /\ UNCHANGED resources

\* queueUpdateSchema: position is an integer >= 1, otherwise the controller
\* answers 400 without calling the service
UpdatePatientPositionInvalid(queueId, newPosition) ==
  /\ now < MaxClock
  /\ newPosition < 1
  /\ UNCHANGED <<departmentQueues, currentPatientLoad>>
  /\ now' = now + 1
  /\ UNCHANGED calls
  /\ UNCHANGED cache
  /\ response' = <<>>
  /\ lastOp' = Call([op |-> "updatePatientPosition", status |-> 400,
                departmentId |-> NULL, queueId |-> queueId,
                patientId |-> NULL, arg |-> newPosition])
  /\ UNCHANGED resources

\* ----------------------------------------------- prioritizeCriticalPatients
\* variant: ORDER BY createdAt only, the urgency CASE dropped
PrioritizeKey_CreatedOnly(dq) ==
  [q \in 1..Len(dq) |-> <<0, dq[q].createdAt>>]

\* variant: ORDER BY urgency CASE, positionInQueue DESC
PrioritizeKey_PositionDesc(dq) ==
  [q \in 1..Len(dq) |-> <<UrgencyRank(dq[q].urgencyLevel), 0 - dq[q].positionInQueue>>]

\* ORDER BY urgency CASE, createdAt
PrioritizeKey(dq) ==
  [q \in 1..Len(dq) |-> <<UrgencyRank(dq[q].urgencyLevel), dq[q].createdAt>>]

\* positionInQueue: i + 1 for waitingPatients[i]
PrioritizePositions(waitingPatients) ==
  [i \in 1..Len(waitingPatients) |->
     [queueId |-> waitingPatients[i], position |-> i]]

PrioritizeCriticalPatients(d) ==
  /\ now < MaxClock
  /\ \E waitingPatients \in
          OrderedBy(WaitingIn(departmentQueues, d), PrioritizeKey(departmentQueues)) :
       departmentQueues' =
         ApplyPositions(departmentQueues, PrioritizePositions(waitingPatients))
  /\ UNCHANGED currentPatientLoad
  /\ now' = now + 1
  /\ UNCHANGED calls
  /\ UNCHANGED cache
  /\ response' = <<>>
  /\ lastOp' = Call([op |-> "prioritizeCriticalPatients", status |-> 200,
                departmentId |-> d, queueId |-> NULL, patientId |-> NULL,
                arg |-> NULL])
  /\ UNCHANGED resources

\* ------------------------------------------------- updatePatientDisposition
\* the patient's WAITING or IN_PROGRESS rows in any department; LIMIT 1
\* without ORDER BY returns any one of them
ActiveEntriesOf(dq, p) ==
  {q \in 1..Len(dq) : dq[q].patientId = p /\ dq[q].status \in ActiveStatuses}

UpdatePatientDisposition(p) ==
  /\ now < MaxClock
  /\ \/ /\ ActiveEntriesOf(departmentQueues, p) = {}
        /\ UNCHANGED departmentQueues
        /\ lastOp' = Call([op |-> "updatePatientDisposition", status |-> 200,
                      departmentId |-> NULL, queueId |-> NULL,
                      patientId |-> p, arg |-> NULL])
     \/ \E queueEntry \in ActiveEntriesOf(departmentQueues, p) :
          /\ departmentQueues' =
               [departmentQueues EXCEPT ![queueEntry] =
                  [@ EXCEPT !.status = "COMPLETED", !.completedAt = now]]
          /\ lastOp' = Call([op |-> "updatePatientDisposition", status |-> 200,
                        departmentId |-> departmentQueues[queueEntry].departmentId,
                        queueId |-> queueEntry, patientId |-> p, arg |-> NULL])
  /\ UNCHANGED currentPatientLoad
  /\ now' = now + 1
  /\ UNCHANGED calls
  /\ UNCHANGED cache
  /\ response' = <<>>
  /\ UNCHANGED resources

\* ---------------------------------------------------- triageSchema (vitals)
VitalFields ==
  {"temperature", "systolicBp", "diastolicBp", "heartRate", "respiratoryRate",
   "oxygenSaturation", "bloodGlucose", "painScale", "weight", "height"}

\* z.number().min(..)
VitalMin ==
  [temperature |-> 30, systolicBp |-> 50, diastolicBp |-> 30, heartRate |-> 30,
   respiratoryRate |-> 5, oxygenSaturation |-> 70, bloodGlucose |-> 1,
   painScale |-> 0, weight |-> 1, height |-> 30]

\* z.number()...max(..)
VitalMax ==
  [temperature |-> 45, systolicBp |-> 250, diastolicBp |-> 150,
   heartRate |-> 250, respiratoryRate |-> 60, oxygenSaturation |-> 100,
   bloodGlucose |-> 50, painScale |-> 10, weight |-> 300, height |-> 250]

\* every field but painScale is .optional()
VitalOptional == VitalFields \ {"painScale"}

\* the value of a key that the request body does not carry
Absent == 0 - 999

\* variant: painScale is .optional() like the other vitals
TriageSchemaIssues_PainScaleOptional(vitals) ==
  {f \in VitalFields :
     /\ vitals[f] # Absent
     /\ vitals[f] < VitalMin[f] \/ vitals[f] > VitalMax[f]}

\* the paths (below vitals) of the issues triageSchema.parse collects: zod
\* checks every key and reports all issues, not the first one
TriageSchemaIssues(vitals) ==
  {f \in VitalFields :
     IF vitals[f] = Absent
     THEN f \notin VitalOptional
     ELSE vitals[f] < VitalMin[f] \/ vitals[f] > VitalMax[f]}

\* request bodies: painScale and one more vital, each absent, on a bound of
\* its range or one off it, the other vitals absent
VitalProbes(f) ==
  {Absent, VitalMin[f] - 1, VitalMin[f], VitalMax[f], VitalMax[f] + 1}

TriageVitalsInputs ==
  UNION {{[f \in VitalFields |->
             IF f = "painScale" THEN w ELSE IF f = g THEN v ELSE Absent] :
            v \in VitalProbes(g), w \in VitalProbes("painScale")} :
         g \in VitalOptional}

\* ------------------------------------------- calls run statement by statement
\* variant: a statement also reads the rows other transactions have written
\* and not committed
Committed_Dirty(dq, cs) ==
  IF \E s \in Sessions : cs[s].pc = "writing"
  THEN LET s == CHOOSE t \in Sessions : cs[t].pc = "writing"
       IN  ApplyPositions(dq, SubSeq(cs[s].plan, 1, cs[s].written))
  ELSE dq

\* the table a statement reads: the committed rows, none of the rows that the
\* transactions of the calls cs have written and not committed
Committed(dq, cs) == dq

\* queueId carries an uncommitted UPDATE of some transaction (its row lock)
WriteLocked(cs, queueId) ==
  \E s \in Sessions :
    /\ cs[s].pc = "writing"
    /\ \E i \in 1..cs[s].written : cs[s].plan[i].queueId = queueId

\* the lowest-numbered session that executes no call
FreeSession(s) ==
  /\ calls[s].pc = "idle"
  /\ \A t \in Sessions : t < s => calls[t].pc # "idle"

\* as KnownPatients, KnownDepartments and KnownDoctors, the ids that the
\* calls of the sessions name counted as used
NamedPatients ==
  KnownPatients \cup
    {p \in Patients : \E s \in Sessions : calls[s].patientId >= p - 1}

NamedDepartments ==
  KnownDepartments \cup
    {d \in Departments : \E s \in Sessions : calls[s].departmentId >= d - 1}

NamedDoctors ==
  KnownDoctors \cup
    {d \in Doctors :
       \E s \in Sessions :
         calls[s].op = "callNextPatient" /\ calls[s].arg >= d - 1}

\* no session has started a call yet
AllIdle == \A s \in Sessions : calls[s].pc = "idle"

InFlight == {s \in Sessions : calls[s].pc \notin {"idle", "done"}}

\* the call of session record c returns with HTTP status st; what it
\* held in local variables is gone
Returned(c, st, f) ==
  [c EXCEPT !.pc = "done", !.status = st, !.fault = f, !.count = 0,
            !.plan = <<>>, !.written = 0, !.atStart = <<>>]

CallOf(c, st) ==
  Call([op |-> c.op, status |-> st, departmentId |-> c.departmentId,
        queueId |-> c.queueId, patientId |-> c.patientId, arg |-> c.arg])

\* POST /triage arrives with the body's vitals
ReceiveTriage(s, vitals) ==
  /\ now < MaxClock
  /\ FreeSession(s)
  /\ calls' = [calls EXCEPT ![s] =
       [Idle EXCEPT !.op = "performTriage", !.pc = "parse", !.vitals = vitals,
                    !.atStart = <<departmentQueues, currentPatientLoad>>]]
  /\ response' = <<>>
  /\ UNCHANGED <<departmentQueues, currentPatientLoad, now, lastOp, cache>>
  /\ UNCHANGED resources

\* TriageController.performTriage: triageSchema.parse(req.body); a ZodError
\* is answered 400 with its issues and the service is not called, otherwise
\* the service starts for the patient p the body names, derives urgency u
\* and department d, and reads the queue count
ParseTriage(s, p, u, d) ==
  /\ now < MaxClock
  /\ calls[s].pc = "parse"
  /\ IF TriageSchemaIssues(calls[s].vitals) # {}
     THEN /\ calls' = [calls EXCEPT ![s] = Returned(calls[s], 400, "none")]
          /\ lastOp' = CallOf(calls[s], 400)
          /\ response' = <<[errors |-> TriageSchemaIssues(calls[s].vitals)]>>
          /\ now' = now + 1
     ELSE /\ calls' = [calls EXCEPT ![s] =
               [@ EXCEPT !.pc = "tx", !.departmentId = d, !.patientId = p,
                         !.urgencyLevel = u,
                         !.count = Cardinality(
                            WaitingIn(Committed(departmentQueues, calls), d))]]
          /\ response' = <<>>
          /\ UNCHANGED <<lastOp, now>>
  /\ UNCHANGED <<departmentQueues, currentPatientLoad, cache>>
  /\ UNCHANGED resources

\* ------------------------------------------------ acuity score and routing
\* the symptom flags determineDepartment reads; a request carries the set of
\* the flags whose value is truthy
SymptomFlags ==
  {"chest_pain", "head_trauma", "seizure", "stroke_symptoms", "abdominal_pain",
   "gastrointestinal_bleeding", "fever", "cough", "shortness_of_breath", "burn",
   "trauma", "pediatric"}

SymptomInputs == {S \in SUBSET SymptomFlags : Cardinality(S) <= MaxFlags}

\* request bodies for scoring: a valid painScale, oxygenSaturation absent or
\* in one of its four bands, the other vitals absent
ScoreVitalsInputs ==
  {[f \in VitalFields |->
      IF f = "painScale" THEN 0 ELSE IF f = "oxygenSaturation" THEN v ELSE Absent] :
     v \in {Absent, 85, 93, 96, 100}}

\* the vitals calculateMEWS scores
MewsVitals ==
  {"respiratoryRate", "oxygenSaturation", "temperature", "systolicBp", "heartRate"}

\* `triageData.vitals.x || 0`: an absent vital (and a vital of 0) is passed to
\* calculateMEWS as the number 0
MewsArguments(vitals) ==
  [f \in MewsVitals |-> IF vitals[f] = Absent THEN 0 ELSE vitals[f]]

\* points of the oxygen saturation table: <92 3, 92-94 2, 95-96 1, >=97 0
OxygenSaturationPoints(v) ==
  IF v < 92 THEN 3 ELSE IF v <= 94 THEN 2 ELSE IF v <= 96 THEN 1 ELSE 0

\* TriageCalculator.calculateMEWS: the sum of the points of the vitals. Only
\* the oxygen saturation table is documented; the contributions of the other
\* four vitals are left out of the sum.
CalculateMEWS(args) == OxygenSaturationPoints(args["oxygenSaturation"])

\* TriageCalculator.getUrgencyLevel: >= 7 RED, 4..6 YELLOW, 0..3 GREEN
GetUrgencyLevel(mewsScore) ==
  IF mewsScore >= 7 THEN "RED" ELSE IF mewsScore >= 4 THEN "YELLOW" ELSE "GREEN"

\* determineDepartment: the first rule that matches; `undefined < 92` is
\* false. The pediatric rule evaluates `patient.age` with no `patient` in
\* scope, which throws a ReferenceError.
DetermineDepartment(symptoms, vitals) ==
  IF \/ (vitals["oxygenSaturation"] # Absent /\ vitals["oxygenSaturation"] < 92)
     \/ "chest_pain" \in symptoms
  THEN "Emergency/Cardiology"
  ELSE IF {"head_trauma", "seizure", "stroke_symptoms"} \cap symptoms # {}
  THEN "Emergency/Neurology"
  ELSE IF {"abdominal_pain", "gastrointestinal_bleeding"} \cap symptoms # {}
  THEN "Emergency/Surgery"
  ELSE IF /\ "fever" \in symptoms
          /\ {"cough", "shortness_of_breath"} \cap symptoms # {}
  THEN "Emergency/Infectious Diseases"
  ELSE IF {"burn", "trauma"} \cap symptoms # {}
  THEN "Emergency/Trauma"
  ELSE IF "pediatric" \in symptoms
  THEN "ReferenceError"
  ELSE "Emergency/General"

\* POST /triage arrives with the body's vitals and symptoms
ReceiveAssessment(s, vitals, symptoms) ==
  /\ now < MaxClock
  /\ FreeSession(s)
  /\ calls' = [calls EXCEPT ![s] =
       [Idle EXCEPT !.op = "performTriage", !.pc = "parse", !.vitals = vitals,
                    !.symptoms = symptoms,
                    !.atStart = <<departmentQueues, currentPatientLoad>>]]
  /\ response' = <<>>
  /\ UNCHANGED <<departmentQueues, currentPatientLoad, now, lastOp, cache>>
  /\ UNCHANGED resources

\* performTriage up to the transaction for the patient p the body names:
\* the score, the urgency class, the routing (whose exception the catch block
\* turns into a 500), the department row d of the routed name, the queue count
ScoreTriage(s, p, d) ==
  /\ now < MaxClock
  /\ calls[s].pc = "parse"
  /\ TriageSchemaIssues(calls[s].vitals) = {}
  /\ LET mewsScore == CalculateMEWS(MewsArguments(calls[s].vitals))
         recommendedDept == DetermineDepartment(calls[s].symptoms, calls[s].vitals)
         c == [calls[s] EXCEPT !.patientId = p, !.mewsScore = mewsScore,
                               !.urgencyLevel = GetUrgencyLevel(mewsScore)]
     IN  IF recommendedDept = "ReferenceError"
         THEN /\ calls' = [calls EXCEPT ![s] = Returned(c, 500, "routing")]
              /\ lastOp' = CallOf(c, 500)
              /\ now' = now + 1
         ELSE /\ calls' = [calls EXCEPT ![s] =
                   [c EXCEPT !.pc = "tx", !.departmentId = d,
                             !.recommendedDept = recommendedDept,
                             !.count = Cardinality(
                                WaitingIn(Committed(departmentQueues, calls), d))]]
              /\ UNCHANGED <<lastOp, now>>
  /\ response' = <<>>
  /\ UNCHANGED <<departmentQueues, currentPatientLoad, cache>>
  /\ UNCHANGED resources

\* performTriage up to the transaction: the queue length is counted with db,
\* outside the transaction
BeginPerformTriage(s, p, u, d) ==
  /\ now < MaxClock
  /\ FreeSession(s)
  /\ calls' = [calls EXCEPT ![s] =
       [Idle EXCEPT !.op = "performTriage", !.pc = "tx", !.departmentId = d,
                    !.patientId = p, !.urgencyLevel = u,
                    !.count = Cardinality(
                                WaitingIn(Committed(departmentQueues, calls), d)),
                    !.atStart = <<departmentQueues, currentPatientLoad>>]]
  /\ response' = <<>>
  /\ UNCHANGED <<departmentQueues, currentPatientLoad, now, lastOp, cache>>
  /\ UNCHANGED resources

\* db.transaction: insert the session and the queue row at count + 1,
\* increment the load, commit
TriageTransaction(s) ==
  /\ now < MaxClock
  /\ calls[s].pc = "tx"
  /\ departmentQueues' =
       Append(departmentQueues,
         [PerformTriageRow(departmentQueues, calls[s].patientId,
                           calls[s].urgencyLevel, calls[s].departmentId, now)
            EXCEPT !.positionInQueue = calls[s].count + 1])
  /\ currentPatientLoad' =
       [currentPatientLoad EXCEPT ![calls[s].departmentId] = @ + 1]
  /\ now' = now + 1
  /\ response' = <<>>
  /\ UNCHANGED cache
  /\ LET c == [calls[s] EXCEPT !.queueId = Len(departmentQueues) + 1]
     IN  IF calls[s].urgencyLevel = "RED"
         THEN /\ calls' = [calls EXCEPT ![s] = [c EXCEPT !.pc = "alert"]]
              /\ UNCHANGED lastOp
         ELSE /\ calls' = [calls EXCEPT ![s] = Returned(c, 201, "none")]
              /\ lastOp' = CallOf(c, 201)
  /\ UNCHANGED resources

\* urgencyLevel === 'RED': the patient row is read and sendCriticalAlert is
\* called; sendCriticalAlert catches whatever its delivery throws
TriageAlert(s, delivered) ==
  /\ calls[s].pc = "alert"
  /\ calls' = [calls EXCEPT ![s] =
       Returned(calls[s], 201, IF delivered THEN "none" ELSE "alert")]
  /\ lastOp' = CallOf(calls[s], 201)
  /\ response' = <<>>
  /\ UNCHANGED <<departmentQueues, currentPatientLoad, now, cache>>
  /\ UNCHANGED resources

\* callNextPatient up to its UPDATE: the SELECT ... LIMIT 1 of the next
\* WAITING row (a plain SELECT, no row lock)
BeginCallNextPatient(s, d, doctorId) ==
  /\ now < MaxClock
  /\ FreeSession(s)
  /\ LET dq == Committed(departmentQueues, calls)
         c == [Idle EXCEPT !.op = "callNextPatient", !.departmentId = d,
                           !.arg = doctorId,
                           !.atStart = <<departmentQueues, currentPatientLoad>>]
     IN  IF WaitingIn(dq, d) = {}
         THEN /\ calls' = [calls EXCEPT ![s] = Returned(c, 404, "none")]
              /\ lastOp' = CallOf(c, 404)
         ELSE /\ \E nextPatient \in NextPatientCandidates(dq, d) :
                   calls' = [calls EXCEPT ![s] =
                     [c EXCEPT !.pc = "update", !.queueId = nextPatient,
                               !.patientId = dq[nextPatient].patientId]]
              /\ UNCHANGED lastOp
  /\ response' = <<>>
  /\ UNCHANGED <<departmentQueues, currentPatientLoad, now, cache>>
  /\ UNCHANGED resources

\* UPDATE ... WHERE queueId = nextPatient.queueId (waits for the row lock),
\* the load decrement, the broadcast, the cache clear and the commit
CallNextUpdate(s) ==
  /\ now < MaxClock
  /\ calls[s].pc = "update"
  /\ ~WriteLocked(calls, calls[s].queueId)
  /\ departmentQueues' =
       [departmentQueues EXCEPT ![calls[s].queueId] =
          [@ EXCEPT !.status = "IN_PROGRESS", !.calledAt = now,
                    !.assignedDoctorId = calls[s].arg]]
  /\ currentPatientLoad' =
       [currentPatientLoad EXCEPT ![calls[s].departmentId] = @ - 1]
  /\ now' = now + 1
  /\ cache' = RedisDel(cache, calls[s].departmentId)
  /\ response' = <<>>
  /\ calls' = [calls EXCEPT ![s] =
       Returned([calls[s] EXCEPT !.broadcast = TRUE], 200, "none")]
  /\ lastOp' = CallOf(calls[s], 200)
  /\ UNCHANGED resources

\* updatePatientPosition up to its UPDATE loop: both SELECTs and the
\* "Adjust positions" loop
BeginUpdatePatientPosition(s, queueId, newPosition) ==
  /\ now < MaxClock
  /\ FreeSession(s)
  /\ queueId \in QueueIds
  /\ newPosition >= 1
  /\ \A t \in Sessions : calls[t].pc # "writing"
  /\ LET dq == Committed(departmentQueues, calls)
     IN  \E waitingPatients \in OtherWaitingPatients(dq, queueId) :
           calls' = [calls EXCEPT ![s] =
             [Idle EXCEPT !.op = "updatePatientPosition", !.pc = "writing",
                          !.departmentId = dq[queueId].departmentId,
                          !.queueId = queueId,
                          !.patientId = dq[queueId].patientId,
                          !.arg = newPosition,
                          !.plan = AdjustPositions(waitingPatients, 1, 1,
                                                   queueId, newPosition),
                          !.atStart = <<departmentQueues, currentPatientLoad>>]]
  /\ response' = <<>>
  /\ UNCHANGED <<departmentQueues, currentPatientLoad, now, lastOp, cache>>
  /\ UNCHANGED resources

\* prioritizeCriticalPatients up to its UPDATE loop
BeginPrioritizeCriticalPatients(s, d) ==
  /\ now < MaxClock
  /\ FreeSession(s)
  /\ \A t \in Sessions : calls[t].pc # "writing"
  /\ LET dq == Committed(departmentQueues, calls)
     IN  \E waitingPatients \in OrderedBy(WaitingIn(dq, d), PrioritizeKey(dq)) :
           calls' = [calls EXCEPT ![s] =
             [Idle EXCEPT !.op = "prioritizeCriticalPatients",
                          !.pc = "writing", !.departmentId = d,
                          !.plan = PrioritizePositions(waitingPatients),
                          !.atStart = <<departmentQueues, currentPatientLoad>>]]
  /\ response' = <<>>
  /\ UNCHANGED <<departmentQueues, currentPatientLoad, now, lastOp, cache>>
  /\ UNCHANGED resources

\* one tx.update of the UPDATE loop: the row is written, not committed
WriteRow(s) ==
  /\ calls[s].pc = "writing"
  /\ calls[s].written < Len(calls[s].plan)
  /\ calls' = [calls EXCEPT ![s] = [@ EXCEPT !.written = @ + 1]]
  /\ response' = <<>>
  /\ UNCHANGED <<departmentQueues, currentPatientLoad, now, lastOp, cache>>
  /\ UNCHANGED resources

\* the loop is through: (updatePatientPosition: broadcast, cache clear,) commit
CommitPositions(s) ==
  /\ now < MaxClock
  /\ calls[s].pc = "writing"
  /\ calls[s].written = Len(calls[s].plan)
  /\ departmentQueues' = ApplyPositions(departmentQueues, calls[s].plan)
  /\ UNCHANGED currentPatientLoad
  /\ now' = now + 1
  /\ cache' = IF calls[s].op = "updatePatientPosition"
              THEN RedisDel(cache, calls[s].departmentId)
              ELSE cache
  /\ response' = <<>>
  /\ calls' = [calls EXCEPT ![s] =
       Returned([calls[s] EXCEPT
                   !.broadcast = (calls[s].op = "updatePatientPosition")],
                200, "none")]
  /\ lastOp' = CallOf(calls[s], 200)
  /\ UNCHANGED resources

\* a statement of the call throws (the database is unavailable): inside
\* db.transaction the transaction is rolled back; the catch block answers 500.
\* At pc "alert" the statement is the patient SELECT after the commit.
PersistenceFails(s) ==
  /\ calls[s].pc \in {"tx", "update", "writing", "alert"}
  /\ calls' = [calls EXCEPT ![s] = Returned(calls[s], 500, "persistence")]
  /\ lastOp' = CallOf(calls[s], 500)
  /\ response' = <<>>
  /\ UNCHANGED <<departmentQueues, currentPatientLoad, now, cache>>
  /\ UNCHANGED resources

\* socketService.broadcastToDepartment throws: the call stands inside the
\* db.transaction callback with no try/catch of its own, so the transaction
\* is rolled back and the catch block answers 500
BroadcastFails(s) ==
  /\ \/ calls[s].pc = "update"
     \/ /\ calls[s].pc = "writing"
        /\ calls[s].op = "updatePatientPosition"
        /\ calls[s].written = Len(calls[s].plan)
  /\ calls' = [calls EXCEPT ![s] = Returned(calls[s], 500, "broadcast")]
  /\ lastOp' = CallOf(calls[s], 500)
  /\ response' = <<>>
  /\ UNCHANGED <<departmentQueues, currentPatientLoad, now, cache>>
  /\ UNCHANGED resources

\* the broadcast has emitted the queue_update event, then the cache clear or
\* the COMMIT that follow it throw: the transaction is rolled back and the
\* catch block answers 500
CommitFails(s) ==
  /\ \/ calls[s].pc = "update"
     \/ /\ calls[s].pc = "writing"
        /\ calls[s].op = "updatePatientPosition"
        /\ calls[s].written = Len(calls[s].plan)
  /\ calls' = [calls EXCEPT ![s] =
       Returned([calls[s] EXCEPT !.broadcast = TRUE], 500, "commit")]
  /\ lastOp' = CallOf(calls[s], 500)
  /\ response' = <<>>
  /\ UNCHANGED <<departmentQueues, currentPatientLoad, now, cache>>
  /\ UNCHANGED resources

\* ----------------------------------------------------------- getQueueStatus
\* ORDER BY urgency CASE, positionInQueue ASC
QueueStatusKey(dq) ==
  [q \in 1..Len(dq) |-> <<UrgencyRank(dq[q].urgencyLevel), dq[q].positionInQueue>>]

\* WHERE departmentId = :departmentId
QueueStatusRows(dq, d) == {q \in 1..Len(dq) : dq[q].departmentId = d}

\* the result object built from the selected rows (in the order queue) and the
\* department row
QueueStatusResult(dq, load, d, queue) ==
  [currentLoad |-> load[d],
   total |-> Len(queue),
   waiting |-> Cardinality({i \in 1..Len(queue) : dq[queue[i]].status = "WAITING"}),
   inProgress |-> Cardinality({i \in 1..Len(queue) : dq[queue[i]].status = "IN_PROGRESS"}),
   patients |-> [i \in 1..Len(queue) |->
                   [queueId |-> queue[i],
                    urgencyLevel |-> dq[queue[i]].urgencyLevel,
                    position |-> dq[queue[i]].positionInQueue,
                    status |-> dq[queue[i]].status]]]

GetQueueStatus(d) ==
  /\ now < MaxClock
  /\ IF cache[d] # <<>>
     THEN /\ response' = cache[d]
          /\ UNCHANGED cache
     ELSE LET dq == Committed(departmentQueues, calls)
          IN  \E queue \in OrderedBy(QueueStatusRows(dq, d), QueueStatusKey(dq)) :
                /\ response' = <<QueueStatusResult(dq, currentPatientLoad,
                                                   d, queue)>>
                /\ cache' = [cache EXCEPT ![d] = response']
  /\ UNCHANGED <<departmentQueues, currentPatientLoad>>
  /\ now' = now + 1
  /\ UNCHANGED calls
  /\ lastOp' = Call([op |-> "getQueueStatus", status |-> 200, departmentId |-> d,
                queueId |-> NULL, patientId |-> NULL,
                arg |-> IF cache[d] # <<>> THEN 1 ELSE 0])
  /\ UNCHANGED resources

\* getQueueStatus up to its redisService.set: the cache lookup, and on a
\* miss the two SELECTs and the result object built from them
BeginGetQueueStatus(s, d) ==
  /\ now < MaxClock
  /\ FreeSession(s)
  /\ LET c == [Idle EXCEPT !.op = "getQueueStatus", !.departmentId = d]
         dq == Committed(departmentQueues, calls)
     IN  IF cache[d] # <<>>
         THEN /\ calls' = [calls EXCEPT ![s] =
                   Returned([c EXCEPT !.arg = 1], 200, "none")]
              /\ response' = cache[d]
              /\ lastOp' = CallOf([c EXCEPT !.arg = 1], 200)
         ELSE /\ \E queue \in OrderedBy(QueueStatusRows(dq, d), QueueStatusKey(dq)) :
                   calls' = [calls EXCEPT ![s] =
                     [c EXCEPT !.pc = "set",
                               !.result = <<QueueStatusResult(
                                   dq, currentPatientLoad, d, queue)>>]]
              /\ response' = <<>>
              /\ UNCHANGED lastOp
  /\ UNCHANGED <<departmentQueues, currentPatientLoad, now, cache>>
  /\ UNCHANGED resources

\* redisService.set(cacheKey, result, 30); return result
SetQueueStatusCache(s) ==
  /\ now < MaxClock
  /\ calls[s].pc = "set"
  /\ cache' = [cache EXCEPT ![calls[s].departmentId] = calls[s].result]
  /\ response' = calls[s].result
  /\ calls' = [calls EXCEPT ![s] =
       Returned([calls[s] EXCEPT !.result = <<>>], 200, "none")]
  /\ lastOp' = CallOf(calls[s], 200)
  /\ now' = now + 1
  /\ UNCHANGED <<departmentQueues, currentPatientLoad>>
  /\ UNCHANGED resources

\* redisService.set(cacheKey, result, 30): the key lapses 30 seconds after
\* it was written
CacheExpire(d) ==
  /\ cache[d] # <<>>
  /\ cache' = RedisDel(cache, d)
  /\ UNCHANGED <<departmentQueues, currentPatientLoad, now, lastOp, response,
               calls>>
  /\ UNCHANGED resources

Next ==
  \/ \E q \in QueueIds, n \in 1..MaxPosition : UpdatePatientPosition(q, n)
  \/ \E q \in QueueIds : UpdatePatientPositionInvalid(q, 0)
  \/ \E d \in KnownDepartments : PrioritizeCriticalPatients(d)
  \/ \E p \in KnownPatients : UpdatePatientDisposition(p)
  \/ \E d \in KnownDepartments, doc \in KnownDoctors : CallNextPatient(d, doc)
  \/ \E d \in KnownDepartments, doc \in KnownDoctors : CallNextPatientEmpty(d, doc)
  \/ \E q \in QueueIds : CompletePatient(q)
  \/ \E q \in QueueIds : SkipPatient(q)
  \/ \E p \in KnownPatients, u \in UrgencyLevels, d \in KnownDepartments :
       PerformTriage(p, u, d)

Spec == Init /\ [][Next]_vars

\* the automatic operations only: no manual reposition, no re-prioritize, no
\* disposition
NextAuto ==
  \/ \E p \in KnownPatients, u \in UrgencyLevels, d \in KnownDepartments :
       PerformTriage(p, u, d)
  \/ \E d \in KnownDepartments, doc \in KnownDoctors : CallNextPatient(d, doc)
  \/ \E d \in KnownDepartments, doc \in KnownDoctors : CallNextPatientEmpty(d, doc)
  \/ \E q \in QueueIds : CompletePatient(q)
  \/ \E q \in QueueIds : SkipPatient(q)

SpecAuto == Init /\ [][NextAuto]_vars

\* the queue operations together with the queue-status read and its cache
NextRead ==
  \/ \E p \in KnownPatients, u \in UrgencyLevels, d \in KnownDepartments :
       PerformTriage(p, u, d)
  \/ \E d \in KnownDepartments, doc \in KnownDoctors : CallNextPatient(d, doc)
  \/ \E q \in QueueIds : CompletePatient(q)
  \/ \E q \in QueueIds : SkipPatient(q)
  \/ \E q \in QueueIds, n \in 1..MaxPosition : UpdatePatientPosition(q, n)
  \/ \E d \in KnownDepartments : PrioritizeCriticalPatients(d)
  \/ \E d \in KnownDepartments : GetQueueStatus(d)
  \/ \E d \in KnownDepartments : CacheExpire(d)

SpecRead == Init /\ [][NextRead]_vars

\* triage requests, checked against triageSchema before the service is called
NextValidate ==
  \/ \E p \in KnownPatients, u \in UrgencyLevels, d \in KnownDepartments :
       /\ AllIdle
       /\ departmentQueues = <<>>
       /\ PerformTriage(p, u, d)
  \/ \E s \in Sessions, vitals \in TriageVitalsInputs :
       AllIdle /\ ReceiveTriage(s, vitals)
  \/ \E s \in Sessions, p \in NamedPatients, u \in UrgencyLevels,
          d \in NamedDepartments : ParseTriage(s, p, u, d)
  \/ \E s \in Sessions : TriageTransaction(s)
  \/ \E s \in Sessions : TriageAlert(s, TRUE)

SpecValidate == Init /\ [][NextValidate]_vars

\* triage requests scored and routed from their vitals and symptom flags
NextScore ==
  \/ \E p \in KnownPatients, u \in UrgencyLevels, d \in KnownDepartments :
       /\ AllIdle
       /\ departmentQueues = <<>>
       /\ PerformTriage(p, u, d)
  \/ \E s \in Sessions, vitals \in ScoreVitalsInputs, symptoms \in SymptomInputs :
       AllIdle /\ ReceiveAssessment(s, vitals, symptoms)
  \/ \E s \in Sessions, p \in NamedPatients, d \in NamedDepartments :
       ScoreTriage(s, p, d)
  \/ \E s \in Sessions : TriageTransaction(s)

SpecScore == Init /\ [][NextScore]_vars

\* triage intakes of several sessions interleaved statement by statement
NextIntake ==
  \/ \E s \in Sessions, p \in NamedPatients, u \in UrgencyLevels,
          d \in NamedDepartments : BeginPerformTriage(s, p, u, d)
  \/ \E s \in Sessions : TriageTransaction(s)
  \/ \E s \in Sessions : TriageAlert(s, TRUE)

SpecIntake == Init /\ [][NextIntake]_vars

\* a queue is filled, then callNextPatient calls of several sessions run
\* interleaved statement by statement
NextCallNext ==
  \/ \E p \in KnownPatients, u \in UrgencyLevels, d \in KnownDepartments :
       AllIdle /\ PerformTriage(p, u, d)
  \/ \E s \in Sessions, d \in NamedDepartments, doc \in NamedDoctors :
       BeginCallNextPatient(s, d, doc)
  \/ \E s \in Sessions : CallNextUpdate(s)

SpecCallNext == Init /\ [][NextCallNext]_vars

\* a queue is filled, then position rewrites run statement by statement
\* while getQueueStatus reads the queue of the department being rewritten
NextRewrite ==
  \/ \E p \in KnownPatients, u \in UrgencyLevels, d \in KnownDepartments :
       /\ AllIdle
       /\ Len(departmentQueues) < MaxSetup
       /\ PerformTriage(p, u, d)
  \/ \E s \in Sessions, q \in QueueIds, n \in 1..MaxPosition :
       BeginUpdatePatientPosition(s, q, n)
  \/ \E s \in Sessions, d \in NamedDepartments :
       BeginPrioritizeCriticalPatients(s, d)
  \/ \E s \in Sessions : WriteRow(s)
  \/ \E s \in Sessions : CommitPositions(s)
  \/ \E s \in Sessions :
       calls[s].pc = "writing" /\ GetQueueStatus(calls[s].departmentId)

SpecRewrite == Init /\ [][NextRewrite]_vars

\* ---------------------------------------------------------------- resources
\* allocateResource up to its UPDATE: the SELECT of the resource row (a plain
\* SELECT, no row lock) and the status check, which answers 400
BeginAllocateResource(s, r, p) ==
  /\ now < MaxClock
  /\ FreeSession(s)
  /\ LET c == [Idle EXCEPT !.op = "allocateResource", !.resourceId = r,
                           !.patientId = p, !.arg = r]
     IN  IF resources[r].status # "AVAILABLE"
         THEN /\ calls' = [calls EXCEPT ![s] = Returned(c, 400, "none")]
              /\ lastOp' = CallOf(c, 400)
         ELSE /\ calls' = [calls EXCEPT ![s] = [c EXCEPT !.pc = "allocate"]]
              /\ UNCHANGED lastOp
  /\ response' = <<>>
  /\ UNCHANGED <<departmentQueues, currentPatientLoad, now, cache, resources>>

\* UPDATE resources SET status = 'OCCUPIED', currentPatientId = :patientId
\* WHERE resourceId = :resourceId (whatever the status of the row has become
\* since the SELECT), the patient SELECT, the cache clear and the commit
AllocateUpdate(s) ==
  /\ now < MaxClock
  /\ calls[s].pc = "allocate"
  /\ resources' = [resources EXCEPT ![calls[s].resourceId] =
       [status |-> "OCCUPIED", currentPatientId |-> calls[s].patientId]]
  /\ calls' = [calls EXCEPT ![s] = Returned(calls[s], 200, "none")]
  /\ lastOp' = CallOf(calls[s], 200)
  /\ now' = now + 1
  /\ response' = <<>>
  /\ UNCHANGED <<departmentQueues, currentPatientLoad, cache>>

\* releaseResource: the row is set AVAILABLE with no patient, whatever its
\* status was
ReleaseResource(r) ==
  /\ now < MaxClock
  /\ resources' = [resources EXCEPT ![r] =
       [status |-> "AVAILABLE", currentPatientId |-> NULL]]
  /\ lastOp' = Call([op |-> "releaseResource", status |-> 200,
                departmentId |-> NULL, queueId |-> NULL, patientId |-> NULL,
                arg |-> r])
  /\ now' = now + 1
  /\ response' = <<>>
  /\ UNCHANGED <<departmentQueues, currentPatientLoad, cache, calls>>

\* setResourceMaintenance: status MAINTENANCE, currentPatientId kept
SetResourceMaintenance(r) ==
  /\ now < MaxClock
  /\ resources' = [resources EXCEPT ![r].status = "MAINTENANCE"]
  /\ lastOp' = Call([op |-> "setResourceMaintenance", status |-> 200,
                departmentId |-> NULL, queueId |-> NULL, patientId |-> NULL,
                arg |-> r])
  /\ now' = now + 1
  /\ response' = <<>>
  /\ UNCHANGED <<departmentQueues, currentPatientLoad, cache, calls>>

\* allocations run statement by statement beside releases; a resource is put
\* under maintenance while no allocation is in flight
NextAllocate ==
  \/ \E s \in Sessions, r \in Resources, p \in NamedPatients :
       BeginAllocateResource(s, r, p)
  \/ \E s \in Sessions : AllocateUpdate(s)
  \/ \E r \in Resources : ReleaseResource(r)
  \/ \E r \in Resources : InFlight = {} /\ SetResourceMaintenance(r)

SpecAllocate == Init /\ [][NextAllocate]_vars

\* a queue is filled, then getQueueStatus runs statement by statement beside
\* calls that change the queue
NextReadRace ==
  \/ \E p \in KnownPatients, u \in UrgencyLevels, d \in KnownDepartments :
       /\ AllIdle
       /\ Len(departmentQueues) < MaxSetup
       /\ PerformTriage(p, u, d)
  \/ \E s \in Sessions, d \in NamedDepartments : BeginGetQueueStatus(s, d)
  \/ \E s \in Sessions : SetQueueStatusCache(s)
  \/ \E s \in Sessions, d \in NamedDepartments, doc \in NamedDoctors :
       BeginCallNextPatient(s, d, doc)
  \/ \E s \in Sessions : CallNextUpdate(s)
  \/ \E s \in Sessions, q \in QueueIds, n \in 1..MaxPosition :
       BeginUpdatePatientPosition(s, q, n)
  \/ \E s \in Sessions : WriteRow(s)
  \/ \E s \in Sessions : CommitPositions(s)

SpecReadRace == Init /\ [][NextReadRace]_vars

\* one call at a time, any of whose statements or side effects may fail
NextFault ==
  \/ \E s \in Sessions, p \in NamedPatients, u \in UrgencyLevels,
          d \in NamedDepartments :
       InFlight = {} /\ BeginPerformTriage(s, p, u, d)
  \/ \E s \in Sessions : TriageTransaction(s)
  \/ \E s \in Sessions, delivered \in BOOLEAN : TriageAlert(s, delivered)
  \/ \E s \in Sessions, d \in NamedDepartments, doc \in NamedDoctors :
       InFlight = {} /\ BeginCallNextPatient(s, d, doc)
  \/ \E s \in Sessions : CallNextUpdate(s)
  \/ \E s \in Sessions, q \in QueueIds, n \in 1..MaxPosition :
       InFlight = {} /\ BeginUpdatePatientPosition(s, q, n)
  \/ \E s \in Sessions, d \in NamedDepartments :
       InFlight = {} /\ BeginPrioritizeCriticalPatients(s, d)
  \/ \E s \in Sessions : WriteRow(s)
  \/ \E s \in Sessions : CommitPositions(s)
  \/ \E s \in Sessions : PersistenceFails(s)
  \/ \E s \in Sessions : BroadcastFails(s)
  \/ \E s \in Sessions : CommitFails(s)

SpecFault == Init /\ [][NextFault]_vars

\* ================================================================== claims
Rank(dq, q) == UrgencyRank(dq[q].urgencyLevel)
Pos(dq, q) == dq[q].positionInQueue
Waiting(d) == WaitingIn(departmentQueues, d)

\* C1: in every department the positions of the WAITING entries are exactly
\* {1..N}, N the number of WAITING entries (no gaps, no duplicates).
C1_DensePositions ==
  \A d \in Departments :
    /\ {Pos(departmentQueues, q) : q \in Waiting(d)} = 1..Cardinality(Waiting(d))
    /\ \A a, b \in Waiting(d) :
         a # b => Pos(departmentQueues, a) # Pos(departmentQueues, b)

\* C2: callNextPatient on a department with a WAITING entry succeeds and
\* returns a WAITING entry whose (urgency rank, position) pair is the smallest;
\* afterwards that entry is IN_PROGRESS with calledAt set and the doctor
\* assigned, and no other entry has changed status.
C2_CallNextReturnsMostUrgent ==
  [][ (lastOp'.op = "callNextPatient" /\ Waiting(lastOp'.departmentId) # {}) =>
        LET d == lastOp'.departmentId
            e == lastOp'.queueId
        IN /\ lastOp'.status = 200
           /\ e \in Waiting(d)
           /\ \A r \in Waiting(d) :
                \/ Rank(departmentQueues, e) < Rank(departmentQueues, r)
                \/ /\ Rank(departmentQueues, e) = Rank(departmentQueues, r)
                   /\ Pos(departmentQueues, e) <= Pos(departmentQueues, r)
           /\ departmentQueues'[e].status = "IN_PROGRESS"
           /\ departmentQueues'[e].calledAt # NULL
           /\ departmentQueues'[e].assignedDoctorId = lastOp'.arg
           /\ Len(departmentQueues') = Len(departmentQueues)
           /\ \A r \in QueueIds \ {e} :
                departmentQueues'[r].status = departmentQueues[r].status
    ]_vars

\* C2 witness: a call returned an entry although a less urgent WAITING entry
\* of the department stands at a lower position.
C2_Witness ==
  /\ lastOp.op = "callNextPatient"
  /\ lastOp.status = 200
  /\ departmentQueues[lastOp.queueId].status = "IN_PROGRESS"
  /\ \E r \in Waiting(lastOp.departmentId) :
       /\ Pos(departmentQueues, r) < Pos(departmentQueues, lastOp.queueId)
       /\ Rank(departmentQueues, r) > Rank(departmentQueues, lastOp.queueId)

\* C3: a triage intake puts the new entry at position (number of WAITING
\* entries of the department with urgency at or above its own) + 1 and moves
\* every WAITING entry at or after that position one place down.
C3_IntakeAtTailOfUrgencyBand ==
  [][ (lastOp'.op = "performTriage" /\ lastOp'.status = 201) =>
        LET d == lastOp'.departmentId
            e == lastOp'.queueId
            k == Cardinality({q \in Waiting(d) :
                   Rank(departmentQueues, q) <= Rank(departmentQueues', e)}) + 1
        IN /\ Pos(departmentQueues', e) = k
           /\ \A q \in Waiting(d) :
                Pos(departmentQueues', q) =
                  IF Pos(departmentQueues, q) >= k
                  THEN Pos(departmentQueues, q) + 1
                  ELSE Pos(departmentQueues, q)
    ]_vars

\* C4: each (patient, department) pair has at most one entry that is WAITING
\* or IN_PROGRESS.
C4_OneActiveEntryPerPatient ==
  \A a, b \in QueueIds :
    ( /\ a # b
      /\ departmentQueues[a].patientId = departmentQueues[b].patientId
      /\ departmentQueues[a].departmentId = departmentQueues[b].departmentId
      /\ departmentQueues[a].status \in ActiveStatuses )
    => departmentQueues[b].status \notin ActiveStatuses

\* C5: every status change of an entry is WAITING->IN_PROGRESS,
\* WAITING->CANCELLED, WAITING->SKIPPED or IN_PROGRESS->COMPLETED.
AllowedTransitions ==
  { <<"WAITING", "IN_PROGRESS">>, <<"WAITING", "CANCELLED">>,
    <<"WAITING", "SKIPPED">>, <<"IN_PROGRESS", "COMPLETED">> }

C5_MonotonicStatus ==
  [][ \A q \in QueueIds :
        departmentQueues'[q].status # departmentQueues[q].status =>
          <<departmentQueues[q].status, departmentQueues'[q].status>>
            \in AllowedTransitions
    ]_vars

\* C6: completePatient on an entry that is not IN_PROGRESS and skipPatient on
\* an entry that is not WAITING fail and leave the entry as it was.
C6_InvalidTransitionRejected ==
  [][ \A q \in QueueIds :
        ( /\ lastOp'.queueId = q
          /\ \/ lastOp'.op = "completePatient"
                  /\ departmentQueues[q].status # "IN_PROGRESS"
             \/ lastOp'.op = "skipPatient"
                  /\ departmentQueues[q].status # "WAITING" )
        => /\ lastOp'.status # 200
           /\ departmentQueues'[q] = departmentQueues[q]
    ]_vars

\* C7: updatePatientPosition with newPosition outside [1, number of WAITING
\* entries of the entry's department] fails and changes no position.
C7_OutOfRangeRejected ==
  [][ \A q \in QueueIds :
        ( /\ lastOp'.op = "updatePatientPosition"
          /\ lastOp'.queueId = q
          /\ lastOp'.arg \notin
               1..Cardinality(Waiting(departmentQueues[q].departmentId)) )
        => /\ lastOp'.status # 200
           /\ \A r \in QueueIds :
                Pos(departmentQueues', r) = Pos(departmentQueues, r)
    ]_vars

\* C8: after prioritizeCriticalPatients(d) the WAITING entries of d hold
\* positions 1..N in the order urgency rank ascending, then creation time
\* ascending.
C8_PrioritizeCanonicalOrder ==
  lastOp.op = "prioritizeCriticalPatients" =>
    LET W == Waiting(lastOp.departmentId)
    IN /\ {Pos(departmentQueues, q) : q \in W} = 1..Cardinality(W)
       /\ \A a, b \in W :
            ( \/ Rank(departmentQueues, a) < Rank(departmentQueues, b)
              \/ /\ Rank(departmentQueues, a) = Rank(departmentQueues, b)
                 /\ departmentQueues[a].createdAt < departmentQueues[b].createdAt )
            => Pos(departmentQueues, a) < Pos(departmentQueues, b)

\* C8 witness: a re-prioritized department where an entry that arrived later
\* stands ahead of an earlier, less urgent one.
C8_Witness ==
  /\ lastOp.op = "prioritizeCriticalPatients"
  /\ \E a, b \in Waiting(lastOp.departmentId) :
       /\ departmentQueues[a].createdAt < departmentQueues[b].createdAt
       /\ Rank(departmentQueues, b) < Rank(departmentQueues, a)
       /\ Pos(departmentQueues, b) < Pos(departmentQueues, a)

\* C9: a second prioritizeCriticalPatients(d) right after a first one leaves
\* every WAITING entry of d at the position the first run gave it.
C9_PrioritizeIdempotent ==
  [][ ( /\ lastOp.op = "prioritizeCriticalPatients"
        /\ lastOp'.op = "prioritizeCriticalPatients"
        /\ lastOp'.departmentId = lastOp.departmentId )
      => /\ Len(departmentQueues') = Len(departmentQueues)
         /\ \A q \in QueueIds :
              Pos(departmentQueues', q) = Pos(departmentQueues, q)
    ]_vars

\* C9 witness: the state after two runs in a row on a department with at
\* least two WAITING entries of one urgency class.
C9_Witness ==
  /\ lastOp.op = "prioritizeCriticalPatients"
  /\ lastOp.repeated
  /\ \E a, b \in Waiting(lastOp.departmentId) :
       a # b /\ Rank(departmentQueues, a) = Rank(departmentQueues, b)

\* C10: callNextPatient on a department without a WAITING entry answers 404
\* and leaves the load counters and every entry unchanged.
C10_EmptyQueueNoEffect ==
  [][ (lastOp'.op = "callNextPatient" /\ Waiting(lastOp'.departmentId) = {}) =>
        /\ lastOp'.status = 404
        /\ departmentQueues' = departmentQueues
        /\ currentPatientLoad' = currentPatientLoad
    ]_vars

\* C10 witness: an empty-queue answer for a department that has entries and a
\* non-zero load counter, none of them WAITING.
C10_Witness ==
  /\ lastOp.op = "callNextPatient"
  /\ lastOp.status = 404
  /\ currentPatientLoad[lastOp.departmentId] > 0
  /\ \E q \in QueueIds : departmentQueues[q].departmentId = lastOp.departmentId

\* C14: every department's currentPatientLoad equals the number of its entries
\* that are WAITING or IN_PROGRESS.
C14_LoadMatchesActiveEntries ==
  \A d \in Departments :
    currentPatientLoad[d] =
      Cardinality({q \in QueueIds :
        /\ departmentQueues[q].departmentId = d
        /\ departmentQueues[q].status \in ActiveStatuses})

\* C17: with only intakes, call-next, complete and skip (no manual reposition),
\* the WAITING entries of a department stand in position order by urgency rank
\* and, within one urgency class, by arrival.
C17_DefaultOrderIsUrgencyThenArrival ==
  \A d \in Departments : \A a, b \in Waiting(d) :
    ( \/ Rank(departmentQueues, a) < Rank(departmentQueues, b)
      \/ /\ Rank(departmentQueues, a) = Rank(departmentQueues, b)
         /\ departmentQueues[a].createdAt < departmentQueues[b].createdAt )
    => Pos(departmentQueues, a) < Pos(departmentQueues, b)

\* C18: the snapshot returned by getQueueStatus(department) lists only entries
\* of that department whose status is WAITING or IN_PROGRESS, and its summary
\* total counts no other entry.
C18_SnapshotOnlyActiveEntries ==
  (lastOp.op = "getQueueStatus" /\ response # <<>>) =>
    /\ \A i \in 1..Len(response[1].patients) :
         /\ response[1].patients[i].status \in ActiveStatuses
         /\ departmentQueues[response[1].patients[i].queueId].departmentId
              = lastOp.departmentId
    /\ response[1].total = response[1].waiting + response[1].inProgress

\* the snapshots a query of the stored table can return for department d
FreshQueueStatus(d) ==
  {QueueStatusResult(departmentQueues, currentPatientLoad, d, queue) :
     queue \in OrderedBy(QueueStatusRows(departmentQueues, d),
                         QueueStatusKey(departmentQueues))}

\* C19: a getQueueStatus(department) call returns a snapshot of the queue as
\* the operations that returned before it left it, never a snapshot taken
\* before one of them.
C19_ReadReflectsReturnedOperations ==
  [][(lastOp'.op = "getQueueStatus" /\ now' = now + 1) =>
       response'[1] \in FreshQueueStatus(lastOp'.departmentId)]_vars

\* C11: when every session has run a triage intake for a different patient
\* into the same department and these are the only entries, all intakes
\* succeeded and the positions of the WAITING entries are exactly 1..N,
\* whatever the interleaving of the intakes' statements.
C11_ConcurrentIntakesDistinctPositions ==
  \A d \in Departments :
    ( /\ \A s \in Sessions :
           /\ calls[s].op = "performTriage"
           /\ calls[s].pc = "done"
           /\ calls[s].departmentId = d
      /\ \A s, t \in Sessions : s # t => calls[s].patientId # calls[t].patientId
      /\ Len(departmentQueues) = Cardinality(Sessions) )
    => /\ \A s \in Sessions : calls[s].status = 201
       /\ {departmentQueues[q].positionInQueue : q \in Waiting(d)}
            = 1..Cardinality(Sessions)

\* C12: two callNextPatient calls of different sessions never return the same
\* queue entry, whatever the interleaving of their statements.
C12_CallNextNeverReturnsSameEntry ==
  \A s, t \in Sessions :
    ( /\ s # t
      /\ calls[s].op = "callNextPatient" /\ calls[t].op = "callNextPatient"
      /\ calls[s].pc = "done" /\ calls[t].pc = "done"
      /\ calls[s].status = 200 /\ calls[t].status = 200 )
    => calls[s].queueId # calls[t].queueId

\* the positions listed in snapshot snap are those of table dq
SnapshotPositionsOf(snap, dq) ==
  \A i \in 1..Len(snap.patients) :
    snap.patients[i].position = dq[snap.patients[i].queueId].positionInQueue

\* C13: a getQueueStatus call that queries the table of a department while a
\* position rewrite (updatePatientPosition or prioritizeCriticalPatients) of
\* that department is under way returns either the positions as they were
\* before the rewrite or the positions as the rewrite leaves them, never a
\* mixture.
C13_NoTornRead ==
  [][\A s \in Sessions :
       ( /\ calls[s].pc = "writing"
         /\ lastOp'.op = "getQueueStatus"
         /\ now' = now + 1
         /\ lastOp'.departmentId = calls[s].departmentId
         /\ cache[calls[s].departmentId] = <<>> )
       => \/ SnapshotPositionsOf(response'[1], departmentQueues)
          \/ SnapshotPositionsOf(response'[1],
               ApplyPositions(departmentQueues, calls[s].plan))]_vars

\* a read answered from the table while a rewrite has written some and not all
\* of its rows, the half-written assignment differing from the one before and
\* from the one after
C13_Witness ==
  \E s \in Sessions :
    /\ calls[s].pc = "writing"
    /\ calls[s].written > 0
    /\ calls[s].written < Len(calls[s].plan)
    /\ lastOp.op = "getQueueStatus"
    /\ lastOp.arg = 0
    /\ lastOp.departmentId = calls[s].departmentId
    /\ response # <<>>
    /\ Len(response[1].patients) >= 2
    /\ LET part == ApplyPositions(departmentQueues,
                     SubSeq(calls[s].plan, 1, calls[s].written))
           post == ApplyPositions(departmentQueues, calls[s].plan)
       IN  /\ \E q \in QueueIds :
                part[q].positionInQueue # departmentQueues[q].positionInQueue
           /\ \E q \in QueueIds :
                part[q].positionInQueue # post[q].positionInQueue

\* C15: a call whose critical alert or queue-changed broadcast fails still
\* answers success, and the entry it created is in the table.
C15_SideEffectFailureDoesNotFailCall ==
  [][\A s \in Sessions :
       (calls[s].fault = "none" /\ calls'[s].fault \in {"alert", "broadcast"})
       => /\ calls'[s].status \in {200, 201}
          /\ calls'[s].op = "performTriage" =>
               calls'[s].queueId \in 1..Len(departmentQueues')]_vars

\* C16: when a statement of a call fails, the table and the load counters are
\* as they were when the call started.
C16_FailedCallLeavesStateAsAtStart ==
  [][\A s \in Sessions :
       (calls[s].fault = "none" /\ calls'[s].fault = "persistence")
       => <<departmentQueues', currentPatientLoad'>> = calls[s].atStart]_vars

\* the vitals of a request that lie outside their bounds, painScale also when
\* it is missing
C20_Offending(vitals) ==
  {f \in VitalFields :
     \/ f = "painScale" /\ vitals[f] = Absent
     \/ vitals[f] # Absent /\ (vitals[f] < VitalMin[f] \/ vitals[f] > VitalMax[f])}

\* C20: a triage request whose painScale is missing or outside 0..10, or that
\* carries a vital outside its bounds, is answered 400 with errors that name
\* every offending field; the service is not called, and the queue table and
\* the load counters stay as they were.
C20_InvalidVitalsRejected ==
  [][\A s \in Sessions :
       ( /\ calls[s].pc = "parse"
         /\ calls'[s].pc # "parse"
         /\ C20_Offending(calls[s].vitals) # {} )
       => /\ calls'[s].pc = "done"
          /\ calls'[s].status = 400
          /\ lastOp'.status = 400
          /\ C20_Offending(calls[s].vitals) \subseteq response'[1].errors
          /\ UNCHANGED <<departmentQueues, currentPatientLoad>>]_vars

\* a request without painScale and with a second vital out of bounds was
\* rejected while the queue held an entry
C20_Witness ==
  /\ lastOp.op = "performTriage"
  /\ lastOp.status = 400
  /\ response # <<>>
  /\ "painScale" \in response[1].errors
  /\ Cardinality(response[1].errors) = 2
  /\ departmentQueues # <<>>
  /\ \E s \in Sessions :
       calls[s].status = 400 /\ calls[s].vitals["painScale"] = Absent

\* the departments a call was performed for: the department it names, and for
\* a disposition the departments in which the patient is under treatment
C21_DepartmentsOf(op) ==
  IF op.op = "updatePatientDisposition"
  THEN {departmentQueues[q].departmentId :
          q \in {r \in QueueIds :
                   /\ departmentQueues[r].patientId = op.patientId
                   /\ departmentQueues[r].status = "IN_PROGRESS"}}
  ELSE {op.departmentId} \ {NULL}

\* C21: an operation performed for department D (intake, call-next, complete,
\* skip, reposition, re-prioritize, patient disposition) leaves the status and
\* the position of every entry of every other department, and every other
\* department's load, as they were.
C21_DepartmentsIndependent ==
  [][ ( /\ now' = now + 1
        /\ C21_DepartmentsOf(lastOp') # {} )
      => /\ \A q \in QueueIds :
              departmentQueues[q].departmentId \notin C21_DepartmentsOf(lastOp')
              => /\ departmentQueues'[q].status = departmentQueues[q].status
                 /\ Pos(departmentQueues', q) = Pos(departmentQueues, q)
         /\ \A d \in Departments \ C21_DepartmentsOf(lastOp') :
              currentPatientLoad'[d] = currentPatientLoad[d]
    ]_vars

\* C22: callNextPatient or skipPatient that takes a WAITING entry out of a
\* department whose WAITING positions are 1..N moves every WAITING entry
\* behind it up by one and keeps those ahead of it, so the positions are
\* 1..N-1 afterwards.
C22_RemovalCompactsPositions ==
  [][ \A q \in QueueIds :
        ( /\ lastOp'.op \in {"callNextPatient", "skipPatient"}
          /\ lastOp'.status = 200
          /\ lastOp'.queueId = q
          /\ now' = now + 1
          /\ departmentQueues[q].status = "WAITING"
          /\ C1_DensePositions )
        => \A r \in Waiting(departmentQueues[q].departmentId) \ {q} :
             /\ departmentQueues'[r].status = "WAITING"
             /\ Pos(departmentQueues', r) =
                  IF Pos(departmentQueues, r) > Pos(departmentQueues, q)
                  THEN Pos(departmentQueues, r) - 1
                  ELSE Pos(departmentQueues, r)
    ]_vars

\* C23: updatePatientPosition(entry, p) on a WAITING entry of a department
\* whose WAITING positions are 1..N, with 1 <= p <= N, leaves the entry at p,
\* moves the entries between the old and the new position one slot toward the
\* vacated side, leaves the other entries where they were and changes no
\* status.
C23_RepositionMovesEntry ==
  [][ \A q \in QueueIds :
        ( /\ lastOp'.op = "updatePatientPosition"
          /\ lastOp'.status = 200
          /\ lastOp'.queueId = q
          /\ now' = now + 1
          /\ departmentQueues[q].status = "WAITING"
          /\ C1_DensePositions
          /\ lastOp'.arg \in
               1..Cardinality(Waiting(departmentQueues[q].departmentId)) )
        => /\ Pos(departmentQueues', q) = lastOp'.arg
           /\ \A r \in QueueIds :
                departmentQueues'[r].status = departmentQueues[r].status
           /\ \A r \in Waiting(departmentQueues[q].departmentId) \ {q} :
                Pos(departmentQueues', r) =
                  IF /\ Pos(departmentQueues, r) > Pos(departmentQueues, q)
                     /\ Pos(departmentQueues, r) <= lastOp'.arg
                  THEN Pos(departmentQueues, r) - 1
                  ELSE IF /\ Pos(departmentQueues, r) < Pos(departmentQueues, q)
                          /\ Pos(departmentQueues, r) >= lastOp'.arg
                       THEN Pos(departmentQueues, r) + 1
                       ELSE Pos(departmentQueues, r)
           /\ \A r \in QueueIds \ Waiting(departmentQueues[q].departmentId) :
                Pos(departmentQueues', r) = Pos(departmentQueues, r)
    ]_vars

\* the last of three WAITING entries of a department was moved to the front
C23_Witness ==
  /\ lastOp.op = "updatePatientPosition"
  /\ lastOp.status = 200
  /\ lastOp.arg = 1
  /\ lastOp.queueId = 3
  /\ \A q \in 1..3 :
       /\ q \in QueueIds
       /\ departmentQueues[q].status = "WAITING"
       /\ departmentQueues[q].departmentId = 1
  /\ Pos(departmentQueues, 3) = 1
  /\ Pos(departmentQueues, 1) = 2
  /\ Pos(departmentQueues, 2) = 3

\* the queue depth an intake hands to the wait estimate: queuePosition is
\* `Number(queueCount.count) + 1` of the same count, so the depth of the call
\* that created row q is the row's first position less one
C24_DepthUsed(dq, q) == Pos(dq, q) - 1

\* C24: the wait estimate of an intake takes as queue depth the number of
\* WAITING entries of the target department whose urgency is at or above the
\* new entry's (a RED intake into a department holding only GREEN entries is
\* estimated from depth 0).
C24_EstimateDepthCountsAtOrAboveUrgency ==
  [][ ( /\ lastOp'.op = "performTriage"
        /\ lastOp'.status = 201
        /\ now' = now + 1 )
      => C24_DepthUsed(departmentQueues', lastOp'.queueId) =
           Cardinality({r \in Waiting(lastOp'.departmentId) :
                          Rank(departmentQueues, r) <=
                            Rank(departmentQueues', lastOp'.queueId)})
    ]_vars

\* C25: an omitted vital contributes 0 points: the score and the urgency class
\* of a request without oxygenSaturation are those of the same request with an
\* oxygenSaturation of the 0-point band (>= 97), not those of a reading < 92.
C25_OmittedVitalScoresZero ==
  [][\A s \in Sessions :
       ( /\ calls[s].pc = "parse"
         /\ calls'[s].pc # "parse"
         /\ TriageSchemaIssues(calls[s].vitals) = {}
         /\ calls[s].vitals["oxygenSaturation"] = Absent )
       => /\ calls'[s].mewsScore =
               CalculateMEWS(MewsArguments(
                 [calls[s].vitals EXCEPT !["oxygenSaturation"] = 100]))
          /\ calls'[s].urgencyLevel =
               GetUrgencyLevel(CalculateMEWS(MewsArguments(
                 [calls[s].vitals EXCEPT !["oxygenSaturation"] = 100])))
    ]_vars

\* C26: routing is a total decision table: every valid request, whatever flags
\* it carries (the pediatric flag included), is routed to a department and its
\* intake goes on to the transaction; routing never makes the call fail.
C26_RoutingTotal ==
  [][\A s \in Sessions :
       ( /\ calls[s].pc = "parse"
         /\ calls'[s].pc # "parse"
         /\ TriageSchemaIssues(calls[s].vitals) = {} )
       => /\ calls'[s].pc = "tx"
          /\ calls'[s].status # 500
          /\ calls'[s].recommendedDept \in
               {"Emergency/Cardiology", "Emergency/Neurology",
                "Emergency/Surgery", "Emergency/Infectious Diseases",
                "Emergency/Trauma", "Pediatrics", "Emergency/General"}
    ]_vars

\* C27: no operation changes the urgencyLevel, the patientId or the
\* departmentId of an existing entry; a later triage of a patient leaves the
\* patient's earlier entries as they are and inserts a new entry.
C27_EntryIdentityImmutable ==
  [][ /\ \A q \in QueueIds :
           /\ q <= Len(departmentQueues')
           /\ departmentQueues'[q].urgencyLevel = departmentQueues[q].urgencyLevel
           /\ departmentQueues'[q].patientId = departmentQueues[q].patientId
           /\ departmentQueues'[q].departmentId = departmentQueues[q].departmentId
      /\ (lastOp'.op = "performTriage" /\ lastOp'.status = 201 /\ now' = now + 1)
         => /\ Len(departmentQueues') = Len(departmentQueues) + 1
            /\ lastOp'.queueId = Len(departmentQueues')
    ]_vars

\* a patient triaged GREEN and called was triaged again as RED into the same
\* department: two entries, the first still GREEN and IN_PROGRESS
C27_Witness ==
  /\ lastOp.op = "performTriage"
  /\ lastOp.status = 201
  /\ \E a, b \in QueueIds :
       /\ a < b
       /\ b = lastOp.queueId
       /\ departmentQueues[a].patientId = departmentQueues[b].patientId
       /\ departmentQueues[a].departmentId = departmentQueues[b].departmentId
       /\ departmentQueues[a].urgencyLevel = "GREEN"
       /\ departmentQueues[b].urgencyLevel = "RED"
       /\ departmentQueues[a].status = "IN_PROGRESS"

\* C28: every queue_update event that was broadcast belongs to a committed
\* change: a call whose transaction failed or was rolled back has delivered
\* no event.
C28_BroadcastOnlyForCommittedChange ==
  \A s \in Sessions :
    (calls[s].pc = "done" /\ calls[s].broadcast) => calls[s].status = 200

\* C29: whatever the interleaving of a getQueueStatus(d) with a concurrent
\* call that changes the queue of d, once the calls have returned the cache
\* entry of d is absent or holds a snapshot of the committed table.
C29_NoStaleCacheAfterRace ==
  InFlight = {} =>
    \A d \in Departments :
      cache[d] # <<>> => cache[d][1] \in FreshQueueStatus(d)

\* C30: allocateResource succeeds only on a resource whose status is
\* AVAILABLE and otherwise answers 400 and leaves the resource as it was; of
\* two concurrent allocations of one AVAILABLE resource to different patients
\* exactly one succeeds, and currentPatientId is the patient of that call.
C30_AllocateExclusive ==
  [][\A s \in Sessions :
       /\ ( /\ calls'[s].op = "allocateResource"
            /\ calls[s].pc # "done"
            /\ calls'[s].pc = "done"
            /\ calls'[s].status = 200 )
          => /\ resources[calls'[s].resourceId].status = "AVAILABLE"
             /\ resources'[calls'[s].resourceId] =
                  [status |-> "OCCUPIED",
                   currentPatientId |-> calls'[s].patientId]
       /\ ( /\ calls'[s].op = "allocateResource"
            /\ calls[s].pc # "done"
            /\ calls'[s].pc = "done"
            /\ calls'[s].status = 400 )
          => /\ resources[calls'[s].resourceId].status # "AVAILABLE"
             /\ UNCHANGED resources
    ]_vars

====
